---- MODULE Spec2Model ----
(***************************************************************************)
(* Model of main.py: the FastAPI handlers (root, guestwifi,                *)
(* guestwifi_enable, guestwifi_disable), the controller class              *)
(* FritzBoxGuestWiFiControl and the router they talk to.                   *)
(*                                                                         *)
(* Every request runs in its own slot r \in Requests (FastAPI runs the     *)
(* synchronous handlers in a thread pool, so requests interleave at every  *)
(* blocking call).  One action models one blocking step of a handler: the  *)
(* connection setup, each call_action, the sleep, close() and the          *)
(* response.  The router is the environment: it answers a call_action      *)
(* with a mapping, with a FritzConnectionException or with any other       *)
(* exception, and it takes some seconds to follow a SetEnable.             *)
(***************************************************************************)
EXTENDS Integers, Sequences, FiniteSets, TLC

VARIABLES
    pc,         \* pc[r]: position of request r in its handler
    handler,    \* handler[r]: which endpoint request r hit
    fritzbox,   \* fritzbox[r]: the controller's attribute self.fritzbox
    closes,     \* closes[r]: number of close() calls of request r
    locals,     \* locals[r]: local values of the running controller method
    result,     \* result[r]: value returned by the controller method
    response,   \* response[r]: what the handler answered
    trace,      \* trace[r]: call_action calls and sleeps request r performed
    sleepLeft,  \* sleepLeft[r]: seconds left of the running sleep(5)
    dev,        \* the router's guest WiFi: status, pending target, timer
    dev0,       \* the router's status before any request
    wire,       \* the SetEnable calls the router has taken, in order
    env,        \* the environment variables FRITZBOX_ADDRESS, _USER, _PASS
    proc,       \* the process: "loading", "probing", "serving" or "exited"
    probe       \* the connection of the initial check: "none", "open", "deleted"

vars == <<pc, handler, fritzbox, closes, locals, result, response, trace,
          sleepLeft, dev, dev0, wire, env, proc, probe>>

\* What stays as it is once the process serves requests
startup == <<env, proc, probe>>

----------------------------------------------------------------------------
(* Bounds of the model *)

NumRequests == 2
MaxSettle == 6

(* Program constants *)

MinSettle == 4

\* (mutant) a sleep shorter than the router needs
SleepSeconds_TooShort == MinSettle - 1

SleepSeconds == 5

Requests == 1..NumRequests
SettleTimes == MinSettle..MaxSettle

FRITZBOX_GUESTWIFI_ENABLED == "Up"

Handlers == {"root", "guestwifi", "guestwifi_enable", "guestwifi_disable"}
DevStatuses == {"Up", "Down", "Disabled"}

\* The required settings and what os.getenv can give for each: None when
\* the variable is absent, the empty string, or a value
EnvNames == {"FRITZBOX_ADDRESS", "FRITZBOX_USER", "FRITZBOX_PASS"}
EnvValues == {"None", "", "set"}

\* What the router reports as its firmware version to the initial check
ProbeVersions == {"None", "", "7.29"}

----------------------------------------------------------------------------
(* Python values.  A string s is [str |-> s], None is PyNone, a dict is a  *)
(* record whose fields are Python values.                                  *)

Str(s) == [str |-> s]
PyNone == [none |-> "None"]

\* dict.get(key): the value, or None when the key is absent
Get(d, k) == IF k \in DOMAIN d THEN d[k] ELSE PyNone

\* Python truth value of the int the handlers pass as enable (1 or 0)
Truthy(x) == x # 0

IsErrorMarker(v) == "error" \in DOMAIN v

\* __guestwifi_action, lines 91-92: arguments = {} when none are given
NoArguments == [k \in {} |-> PyNone]

----------------------------------------------------------------------------
(* The router (environment of the program) *)

\* str(ex) of the exception a failing action raises
ErrMsg(name) == name \o " failed"

\* What one call_action can end in: the mapping ("ok"), a
\* FritzConnectionException ("err") or an exception of another class
\* ("exc").  A SetEnable that ends in an exception may or may not have been
\* taken by the router; a SetEnable taken settles after `settle` seconds.
RouterOutcomes(name) ==
    IF name = "SetEnable"
    THEN {[out |-> "ok", msg |-> "", applied |-> TRUE, settle |-> s] :
              s \in SettleTimes}
         \cup {[out |-> x, msg |-> ErrMsg(name), applied |-> TRUE,
                settle |-> MinSettle] : x \in {"err", "exc"}}
         \cup {[out |-> x, msg |-> ErrMsg(name), applied |-> FALSE,
                settle |-> 0] : x \in {"err", "exc"}}
    ELSE {[out |-> "ok", msg |-> "", applied |-> FALSE, settle |-> 0]}
         \cup {[out |-> x, msg |-> ErrMsg(name), applied |-> FALSE,
                settle |-> 0] : x \in {"err", "exc"}}

\* The mapping the router answers to a successful action
RouterReply(name) ==
    CASE name = "GetInfo" ->
             [NewEnable |-> Str(IF dev.status = "Up" THEN "1" ELSE "0"),
              NewStatus |-> Str(dev.status)]
      [] name = "GetSSID" -> [NewSSID |-> Str("guest")]
      [] name = "GetStatistics" ->
             [NewTotalPacketsSent |-> Str("10"),
              NewTotalPacketsReceived |-> Str("20")]
      [] OTHER -> [NewDone |-> Str("1")]

TargetStatus(newEnable) == IF Truthy(newEnable) THEN "Up" ELSE "Down"

\* The router after it has taken SetEnable(NewEnable = v): the status
\* follows after s seconds; a later write replaces a pending one.
RouterAfterWrite(v, s) ==
    [status |-> dev.status, target |-> TargetStatus(v), timer |-> s]

\* The router after one more second
RouterAfterSecond ==
    IF dev.timer = 1
    THEN [status |-> dev.target, target |-> dev.target, timer |-> 0]
    ELSE IF dev.timer > 1 THEN [dev EXCEPT !.timer = @ - 1] ELSE dev

----------------------------------------------------------------------------
(* FritzBoxGuestWiFiControl *)

\* __guestwifi_action: the mapping of call_action, or {"error": str(ex)}
\* when it raised a FritzConnectionException (o.out is "ok" or "err";
\* any other exception is not caught here and leaves the method)
GuestwifiAction(o, reply) ==
    IF o.out = "ok" THEN reply ELSE [error |-> Str(o.msg)]

\* (mutant) the error mapping of a failed action is handed on as the status
GetStatusOf_KeepError(ret) ==
    IF IsErrorMarker(ret) THEN ret ELSE Get(ret, "NewStatus")

\* __get_guestwifi_status: __guestwifi_action("GetInfo").get("NewStatus")
GetStatusOf(ret) == Get(ret, "NewStatus")

\* (mutant) neither branch returns early: the write is always sent
NothingToDo_Never(enable, status) == FALSE

\* (mutant) the enable branch never finds the guest WiFi already up
NothingToDo_EnableAlways(enable, status) ==
    IF Truthy(enable)
    THEN FALSE
    ELSE status # Str(FRITZBOX_GUESTWIFI_ENABLED)

\* (mutant) the disable branch takes only "Down" for already disabled
NothingToDo_OnlyDown(enable, status) ==
    IF Truthy(enable)
    THEN status = Str(FRITZBOX_GUESTWIFI_ENABLED)
    ELSE status = Str("Down")

\* set_guestwifi_status, lines 70-79: whether there is nothing to do
NothingToDo(enable, status) ==
    IF Truthy(enable)
    THEN status = Str(FRITZBOX_GUESTWIFI_ENABLED)
    ELSE status # Str(FRITZBOX_GUESTWIFI_ENABLED)

\* (mutant) SetEnable is sent with the opposite flag
SetEnableArguments_Flipped(enable) == [NewEnable |-> 1 - enable]

\* set_guestwifi_status, line 82: the arguments of SetEnable
SetEnableArguments(enable) == [NewEnable |-> enable]

\* get_guestwifi_status / the short-circuit returns: {"enabled": status}
StatusResult(status) == [enabled |-> status]

\* (mutant) the ssid field takes the status key of the mapping
SsidOf_WrongKey(ret) == Get(ret, "NewStatus")

\* get_info, line 56: __guestwifi_action("GetSSID").get("NewSSID")
SsidOf(ret) == Get(ret, "NewSSID")

\* get_info: the structure returned
InfoResult(enabled, ssid, stats) ==
    [fritzbox |->
        [version |-> Str("7.29"),
         model |-> Str("FRITZ!Box 7590"),
         guestwifi |-> [enabled |-> enabled,
                        ssid |-> ssid,
                        stats |-> stats]]]

\* the value the enable / disable handlers pass to set_guestwifi_status
EnableOf(h) == IF h = "guestwifi_enable" THEN 1 ELSE 0

----------------------------------------------------------------------------
(* State *)

NoLocals == [status |-> PyNone, ssid |-> PyNone]
NoResponse == [kind |-> "none"]

Init ==
    /\ pc = [r \in Requests |-> "idle"]
    /\ handler = [r \in Requests |-> "none"]
    /\ fritzbox = [r \in Requests |-> "unset"]
    /\ closes = [r \in Requests |-> 0]
    /\ locals = [r \in Requests |-> NoLocals]
    /\ result = [r \in Requests |-> PyNone]
    /\ response = [r \in Requests |-> NoResponse]
    /\ trace = [r \in Requests |-> <<>>]
    /\ sleepLeft = [r \in Requests |-> 0]
    /\ dev0 \in DevStatuses
    /\ dev = [status |-> dev0, target |-> dev0, timer |-> 0]
    /\ wire = <<>>
    /\ env \in [EnvNames -> EnvValues]
    /\ proc = "loading"
    /\ probe = "none"

\* (mutant) a call that raised FritzConnectionException is tried again
Attempts_RetryOnError(o) == IF o.out = "err" THEN 2 ELSE 1

\* __guestwifi_action, lines 93-97: how often one invocation calls
\* call_action (there is no loop around line 94)
Attempts(o) == 1

\* What self.fritzbox.call_action(...) of request r can end in: an outcome
\* of the router, or the AttributeError of a controller whose attribute
\* fritzbox is not there (before the setup, after close())
CallOutcomes(r, name) ==
    IF fritzbox[r] = "set"
    THEN RouterOutcomes(name)
    ELSE {[out |-> "exc", msg |-> "fritzbox", applied |-> FALSE,
           settle |-> 0]}

\* One call_action(name) of request r ending in outcome o: what it leaves
\* in the request's trace (for a GetInfo, with the status the router had
\* at that moment) and at the router.
Called(r, name, arguments, o) ==
    /\ trace' = [trace EXCEPT ![r] =
                    @ \o [i \in 1..Attempts(o) |->
                            [a |-> name, arg |-> arguments, out |-> o.out,
                             st |-> IF name = "GetInfo" THEN dev.status
                                                        ELSE ""]]]
    /\ IF name = "SetEnable" /\ o.applied
       THEN /\ dev' = RouterAfterWrite(arguments.NewEnable, o.settle)
            /\ wire' = Append(wire, [req |-> r,
                                     NewEnable |-> arguments.NewEnable,
                                     settle |-> o.settle])
       ELSE UNCHANGED <<dev, wire>>

\* An exception that __guestwifi_action does not catch leaves the
\* controller method and the handler: the framework answers with an error.
Escapes(r) ==
    /\ pc' = [pc EXCEPT ![r] = "raised"]
    /\ response' = [response EXCEPT ![r] = [kind |-> "error"]]

\* (mutant) root calls set_guestwifi_status instead of the status read
FirstStep_RootSets(h) ==
    IF h = "guestwifi" THEN "get_info_enabled" ELSE "set_read"

\* The first line of each handler's body after the connection setup
FirstStep(h) ==
    CASE h = "root" -> "get_guestwifi_status"
      [] h = "guestwifi" -> "get_info_enabled"
      [] OTHER -> "set_read"

----------------------------------------------------------------------------
(* Start of the process *)

\* Python truth value of what os.getenv or system_version gives: None and
\* the empty string are false
Given(v) == v \notin {"None", ""}

\* (mutant) the password is not asserted
CredentialsGiven_NoPass(e) ==
    Given(e["FRITZBOX_ADDRESS"]) /\ Given(e["FRITZBOX_USER"])

\* lines 33-35: the three asserts on the settings
CredentialsGiven(e) == \A n \in EnvNames : Given(e[n])

\* lines 32-35: load the settings; a failing assert ends the process
LoadConfiguration ==
    /\ proc = "loading"
    /\ proc' = IF CredentialsGiven(env) THEN "probing" ELSE "exited"
    /\ UNCHANGED <<pc, handler, fritzbox, closes, locals, result, response,
                   trace, sleepLeft, dev, dev0, wire, env, probe>>

\* lines 124-128: open the connection of the initial check;
\* FritzConnection(...) may raise, which ends the process
OpenInitialConnection(ok) ==
    /\ proc = "probing"
    /\ probe = "none"
    /\ IF ok
       THEN probe' = "open" /\ UNCHANGED proc
       ELSE proc' = "exited" /\ UNCHANGED probe
    /\ UNCHANGED <<pc, handler, fritzbox, closes, locals, result, response,
                   trace, sleepLeft, dev, dev0, wire, env>>

\* lines 130-132: assert the firmware version, delete the connection; the
\* module then goes on to build the app, which serves requests
CheckInitialConnection(version) ==
    /\ proc = "probing"
    /\ probe = "open"
    /\ IF Given(version)
       THEN probe' = "deleted" /\ proc' = "serving"
       ELSE proc' = "exited" /\ UNCHANGED probe
    /\ UNCHANGED <<pc, handler, fritzbox, closes, locals, result, response,
                   trace, sleepLeft, dev, dev0, wire, env>>

----------------------------------------------------------------------------
(* Handlers *)

\* A request arrives at one of the four endpoints (the slots are
\* interchangeable: they are taken in order)
Request(r, h) ==
    /\ proc = "serving"
    /\ pc[r] = "idle"
    /\ \A q \in Requests : q < r => pc[q] # "idle"
    /\ pc' = [pc EXCEPT ![r] = "setup"]
    /\ handler' = [handler EXCEPT ![r] = h]
    /\ UNCHANGED <<fritzbox, closes, locals, result, response, trace,
                   sleepLeft, dev, dev0, wire, startup>>

\* setup_fritzbox_connection: the connection opens and the controller is
\* built over it, or FritzConnection(...) raises and the handler ends.
SetupFritzboxConnection(r, ok) ==
    /\ pc[r] = "setup"
    /\ IF ok
       THEN /\ fritzbox' = [fritzbox EXCEPT ![r] = "set"]
            /\ pc' = [pc EXCEPT ![r] = FirstStep(handler[r])]
            /\ UNCHANGED response
       ELSE /\ pc' = [pc EXCEPT ![r] = "failed"]
            /\ response' = [response EXCEPT ![r] = [kind |-> "error"]]
            /\ UNCHANGED fritzbox
    /\ UNCHANGED <<handler, closes, locals, result, trace, sleepLeft,
                   dev, dev0, wire, startup>>

\* get_guestwifi_status (lines 62-64), called by root and by line 85
GetGuestwifiStatus(r) ==
    /\ pc[r] \in {"get_guestwifi_status", "set_reread"}
    /\ \E o \in CallOutcomes(r, "GetInfo") :
        /\ Called(r, "GetInfo", NoArguments, o)
        /\ IF o.out = "exc"
           THEN /\ Escapes(r)
                /\ UNCHANGED result
           ELSE /\ result' = [result EXCEPT ![r] = StatusResult(
                       GetStatusOf(GuestwifiAction(o, RouterReply("GetInfo"))))]
                /\ pc' = [pc EXCEPT ![r] = "close"]
                /\ UNCHANGED response
    /\ UNCHANGED <<handler, fritzbox, closes, locals, sleepLeft, dev0, startup>>

\* set_guestwifi_status, lines 68-79: read the status, return when there is
\* nothing to do
SetRead(r) ==
    /\ pc[r] = "set_read"
    /\ \E o \in CallOutcomes(r, "GetInfo") :
        /\ Called(r, "GetInfo", NoArguments, o)
        /\ IF o.out = "exc"
           THEN /\ Escapes(r)
                /\ UNCHANGED <<locals, result>>
           ELSE LET status ==
                      GetStatusOf(GuestwifiAction(o, RouterReply("GetInfo")))
                IN  /\ locals' = [locals EXCEPT ![r].status = status]
                    /\ IF NothingToDo(EnableOf(handler[r]), status)
                       THEN /\ result' = [result EXCEPT ![r] =
                                             StatusResult(status)]
                            /\ pc' = [pc EXCEPT ![r] = "close"]
                       ELSE /\ pc' = [pc EXCEPT ![r] = "set_write"]
                            /\ UNCHANGED result
                    /\ UNCHANGED response
    /\ UNCHANGED <<handler, fritzbox, closes, sleepLeft, dev0, startup>>

\* set_guestwifi_status, lines 82-84: send SetEnable, begin sleep(5)
SetWrite(r) ==
    /\ pc[r] = "set_write"
    /\ \E o \in CallOutcomes(r, "SetEnable") :
        /\ Called(r, "SetEnable",
                  SetEnableArguments(EnableOf(handler[r])), o)
        /\ IF o.out = "exc"
           THEN /\ Escapes(r)
                /\ UNCHANGED sleepLeft
           ELSE /\ pc' = [pc EXCEPT ![r] = "set_sleep"]
                /\ sleepLeft' = [sleepLeft EXCEPT ![r] = SleepSeconds]
                /\ UNCHANGED response
    /\ UNCHANGED <<handler, fritzbox, closes, locals, result, dev0, startup>>

\* (mutant) the sleep is left out: the call goes on at once
SleepOver_AtOnce(left) == TRUE

\* Whether a sleep with `left` seconds to go returns
SleepOver(left) == left = 0

\* sleep(5) returns once its seconds have passed; the trace keeps how long
\* it slept
SleepReturns(r) ==
    /\ pc[r] = "set_sleep"
    /\ SleepOver(sleepLeft[r])
    /\ pc' = [pc EXCEPT ![r] = "set_reread"]
    /\ trace' = [trace EXCEPT ![r] =
                    Append(@, [a |-> "sleep",
                               arg |-> [seconds |->
                                           SleepSeconds - sleepLeft[r]],
                               out |-> "ok", st |-> ""])]
    /\ sleepLeft' = [sleepLeft EXCEPT ![r] = 0]
    /\ UNCHANGED <<handler, fritzbox, closes, locals, result, response,
                   dev, dev0, wire, startup>>

\* get_info, line 55: "enabled": self.__get_guestwifi_status()
GetInfoEnabled(r) ==
    /\ pc[r] = "get_info_enabled"
    /\ \E o \in CallOutcomes(r, "GetInfo") :
        /\ Called(r, "GetInfo", NoArguments, o)
        /\ IF o.out = "exc"
           THEN /\ Escapes(r)
                /\ UNCHANGED locals
           ELSE /\ locals' = [locals EXCEPT ![r].status =
                       GetStatusOf(GuestwifiAction(o, RouterReply("GetInfo")))]
                /\ pc' = [pc EXCEPT ![r] = "get_info_ssid"]
                /\ UNCHANGED response
    /\ UNCHANGED <<handler, fritzbox, closes, result, sleepLeft, dev0, startup>>

\* get_info, line 56: "ssid": self.__guestwifi_action("GetSSID").get("NewSSID")
GetInfoSsid(r) ==
    /\ pc[r] = "get_info_ssid"
    /\ \E o \in CallOutcomes(r, "GetSSID") :
        /\ Called(r, "GetSSID", NoArguments, o)
        /\ IF o.out = "exc"
           THEN /\ Escapes(r)
                /\ UNCHANGED locals
           ELSE /\ locals' = [locals EXCEPT ![r].ssid =
                       SsidOf(GuestwifiAction(o, RouterReply("GetSSID")))]
                /\ pc' = [pc EXCEPT ![r] = "get_info_stats"]
                /\ UNCHANGED response
    /\ UNCHANGED <<handler, fritzbox, closes, result, sleepLeft, dev0, startup>>

\* get_info, line 57: "stats": self.__guestwifi_action("GetStatistics"),
\* and the return of the whole structure
GetInfoStats(r) ==
    /\ pc[r] = "get_info_stats"
    /\ \E o \in CallOutcomes(r, "GetStatistics") :
        /\ Called(r, "GetStatistics", NoArguments, o)
        /\ IF o.out = "exc"
           THEN /\ Escapes(r)
                /\ UNCHANGED result
           ELSE /\ result' = [result EXCEPT ![r] =
                       InfoResult(locals[r].status, locals[r].ssid,
                           GuestwifiAction(o, RouterReply("GetStatistics")))]
                /\ pc' = [pc EXCEPT ![r] = "close"]
                /\ UNCHANGED response
    /\ UNCHANGED <<handler, fritzbox, closes, locals, sleepLeft, dev0, startup>>

\* (mutant) root uses the controller once more after close()
AfterClose_UseAgain(h) ==
    IF h = "root" THEN "get_guestwifi_status" ELSE "respond"

\* The line of each handler that follows fritzbox.close(): its return
AfterClose(h) == "respond"

\* close(): del self.fritzbox
Close(r) ==
    /\ pc[r] = "close"
    /\ fritzbox[r] = "set"
    /\ fritzbox' = [fritzbox EXCEPT ![r] = "deleted"]
    /\ closes' = [closes EXCEPT ![r] = @ + 1]
    /\ pc' = [pc EXCEPT ![r] = AfterClose(handler[r])]
    /\ UNCHANGED <<handler, locals, result, response, trace, sleepLeft,
                   dev, dev0, wire, startup>>

\* (mutant) the page takes every status but "Down" for enabled
GuestwifiEnabledFlag_NotDown(status) ==
    Get(status, "enabled") # Str("Down")

\* root, line 149: the on/off flag of the page
GuestwifiEnabledFlag(status) ==
    Get(status, "enabled") = Str(FRITZBOX_GUESTWIFI_ENABLED)

\* (mutant) the enable / disable handlers redirect only when the result is
\* the status asked for
ResponseOf_FailureShown(h, res) ==
    CASE h = "root" ->
             [kind |-> "page", guestwifi_enabled |-> GuestwifiEnabledFlag(res)]
      [] h = "guestwifi" -> [kind |-> "json", body |-> res]
      [] OTHER -> IF res = [enabled |-> Str(TargetStatus(EnableOf(h)))]
                  THEN [kind |-> "redirect"]
                  ELSE [kind |-> "error"]

\* What the handler answers after close()
ResponseOf(h, res) ==
    CASE h = "root" ->
             [kind |-> "page", guestwifi_enabled |-> GuestwifiEnabledFlag(res)]
      [] h = "guestwifi" -> [kind |-> "json", body |-> res]
      [] OTHER -> [kind |-> "redirect"]

\* The return statement of each handler
Respond(r) ==
    /\ pc[r] = "respond"
    /\ response' = [response EXCEPT ![r] = ResponseOf(handler[r], result[r])]
    /\ pc' = [pc EXCEPT ![r] = "done"]
    /\ UNCHANGED <<handler, fritzbox, closes, locals, result, trace,
                   sleepLeft, dev, dev0, wire, startup>>

----------------------------------------------------------------------------
(* Time *)

\* One second passes: for every running sleep and for the router
Tick ==
    /\ \/ dev.timer > 0
       \/ \E r \in Requests : sleepLeft[r] > 0
    /\ sleepLeft' = [r \in Requests |->
                        IF sleepLeft[r] > 0 THEN sleepLeft[r] - 1 ELSE 0]
    /\ dev' = RouterAfterSecond
    /\ UNCHANGED <<pc, handler, fritzbox, closes, locals, result, response,
                   trace, dev0, wire, startup>>

Next ==
    \/ LoadConfiguration
    \/ \E ok \in BOOLEAN : OpenInitialConnection(ok)
    \/ \E version \in ProbeVersions : CheckInitialConnection(version)
    \/ \E r \in Requests, h \in Handlers : Request(r, h)
    \/ \E r \in Requests, ok \in BOOLEAN : SetupFritzboxConnection(r, ok)
    \/ \E r \in Requests : GetGuestwifiStatus(r)
    \/ \E r \in Requests : SetRead(r)
    \/ \E r \in Requests : SetWrite(r)
    \/ \E r \in Requests : SleepReturns(r)
    \/ \E r \in Requests : GetInfoEnabled(r)
    \/ \E r \in Requests : GetInfoSsid(r)
    \/ \E r \in Requests : GetInfoStats(r)
    \/ \E r \in Requests : Close(r)
    \/ \E r \in Requests : Respond(r)
    \/ Tick

Spec == Init /\ [][Next]_vars

----------------------------------------------------------------------------
(* Vocabulary of the properties *)

SetHandlers == {"guestwifi_enable", "guestwifi_disable"}

\* The controller method of request r has returned to its handler
Returned(r) == pc[r] \in {"close", "respond", "done"}

\* The handler of request r has finished: it answered, or an exception
\* left it
Finished(r) == pc[r] \in {"done", "raised", "failed"}

\* Number of events of request r that are calls of action `name`
Count(r, name) ==
    Cardinality({i \in 1..Len(trace[r]) : trace[r][i].a = name})

\* What a GetInfo read e hands to its caller as the status, told from the
\* router's side: the router's status, or None when the action failed
StatusRead(e) == IF e.out = "ok" THEN Str(e.st) ELSE PyNone

\* Request r has made its first read and the read returned
FirstReadReturned(r) ==
    /\ handler[r] \in SetHandlers
    /\ Len(trace[r]) >= 1
    /\ trace[r][1].out # "exc"

\* Request r is a set request whose first read does not end the call
ChangePath(r) ==
    /\ FirstReadReturned(r)
    /\ IF handler[r] = "guestwifi_enable"
       THEN StatusRead(trace[r][1]) # Str("Up")
       ELSE StatusRead(trace[r][1]) = Str("Up")

----------------------------------------------------------------------------
(* C1 *)

\* C1: an enable whose first GetInfo read returns "Up" sends no SetEnable,
\* does not sleep, does not read again and returns {enabled: "Up"}.
C1_IdempotentEnable ==
    \A r \in Requests :
        (/\ handler[r] = "guestwifi_enable"
         /\ FirstReadReturned(r)
         /\ trace[r][1].out = "ok"
         /\ trace[r][1].st = "Up")
        => /\ Returned(r)
           /\ Len(trace[r]) = 1
           /\ trace[r][1].a = "GetInfo"
           /\ sleepLeft[r] = 0
           /\ result[r] = [enabled |-> Str("Up")]

C1_Witness ==
    \E r \in Requests :
        /\ handler[r] = "guestwifi_enable"
        /\ pc[r] = "done"
        /\ trace[r][1].out = "ok"
        /\ trace[r][1].st = "Up"
        /\ result[r] = [enabled |-> Str("Up")]

(* C2 *)

\* C2: a disable whose first GetInfo read returns anything but "Up" (another
\* status, or no status because the action failed) sends no SetEnable, does
\* not sleep, does not read again and returns {enabled: <what it read>}.
C2_IdempotentDisable ==
    \A r \in Requests :
        (/\ handler[r] = "guestwifi_disable"
         /\ FirstReadReturned(r)
         /\ StatusRead(trace[r][1]) # Str("Up"))
        => /\ Returned(r)
           /\ Len(trace[r]) = 1
           /\ trace[r][1].a = "GetInfo"
           /\ sleepLeft[r] = 0
           /\ result[r] = [enabled |-> StatusRead(trace[r][1])]

C2_Witness ==
    \E r \in Requests :
        /\ handler[r] = "guestwifi_disable"
        /\ pc[r] = "done"
        /\ trace[r][1].out = "ok"
        /\ trace[r][1].st = "Disabled"
        /\ result[r] = [enabled |-> Str("Disabled")]

(* C3 *)

\* C3: a set call that does not return after its first read performs, in
\* this order and nothing else, one SetEnable with NewEnable = the requested
\* flag, the full sleep and one GetInfo; it returns what that last read
\* gave.  (Every trace is a prefix of that sequence, so no read comes before
\* the sleep is over.)
C3_ChangePathOrder ==
    \A r \in Requests :
        ChangePath(r)
        => /\ Len(trace[r]) <= 4
           /\ Len(trace[r]) >= 2
              => /\ trace[r][2].a = "SetEnable"
                 /\ trace[r][2].arg = [NewEnable |-> EnableOf(handler[r])]
           /\ Len(trace[r]) >= 3
              => /\ trace[r][2].out # "exc"
                 /\ trace[r][3].a = "sleep"
                 /\ trace[r][3].arg.seconds = 5
           /\ Len(trace[r]) >= 4 => trace[r][4].a = "GetInfo"
           /\ Returned(r)
              => /\ Len(trace[r]) = 4
                 /\ result[r] = [enabled |-> StatusRead(trace[r][4])]

C3_Witness ==
    \E r \in Requests :
        /\ ChangePath(r)
        /\ handler[r] = "guestwifi_enable"
        /\ pc[r] = "done"
        /\ Len(trace[r]) = 4
        /\ trace[r][4].st = "Down"
        /\ result[r] = [enabled |-> Str("Down")]

(* C4 *)

\* The preconditions of C4 for request r: the first read gave `from`, the
\* SetEnable succeeded, the router took no other SetEnable and followed in
\* less than 5 seconds, and the call has returned.
C4_Case(r, h, from) ==
    /\ handler[r] = h
    /\ Returned(r)
    /\ ChangePath(r)
    /\ trace[r][1].out = "ok"
    /\ trace[r][1].st = from
    /\ Len(trace[r]) >= 2
    /\ trace[r][2].out = "ok"
    /\ Len(wire) = 1
    /\ wire[1].req = r
    /\ wire[1].settle < 5

C4_Outcome(r, to) ==
    /\ result[r] = [enabled |-> Str(to)]
    /\ Len(trace[r]) = 4
    /\ Count(r, "SetEnable") = 1
    /\ Count(r, "sleep") = 1
    /\ Count(r, "GetInfo") = 2

\* C4 as claimed: under these preconditions enable from "Down" returns
\* {enabled: "Up"} and disable from "Up" returns {enabled: "Down"}, after one
\* write, one wait and one read.
C4_AsClaimed ==
    \A r \in Requests :
        /\ C4_Case(r, "guestwifi_enable", "Down") => C4_Outcome(r, "Up")
        /\ C4_Case(r, "guestwifi_disable", "Up") => C4_Outcome(r, "Down")

\* C4 (amended): the same, provided the GetInfo re-read after the wait
\* succeeds too.
C4_ToggleResult ==
    \A r \in Requests :
        /\ (C4_Case(r, "guestwifi_enable", "Down") /\ trace[r][4].out = "ok")
           => C4_Outcome(r, "Up")
        /\ (C4_Case(r, "guestwifi_disable", "Up") /\ trace[r][4].out = "ok")
           => C4_Outcome(r, "Down")

C4_Witness ==
    \E r \in Requests :
        /\ C4_Case(r, "guestwifi_disable", "Up")
        /\ trace[r][4].out = "ok"
        /\ pc[r] = "done"
        /\ result[r] = [enabled |-> Str("Down")]

(* C5 *)

\* Request r has returned from get_guestwifi_status (called by root, or by
\* line 85 of set_guestwifi_status) and the GetInfo of that call failed with
\* a FritzConnectionException
C5_ReadFailed(r) ==
    /\ Returned(r)
    /\ \/ handler[r] = "root"
       \/ handler[r] \in SetHandlers /\ Len(trace[r]) = 4
    /\ trace[r][Len(trace[r])].out = "err"

\* C5: when GetInfo fails with an ActionError, get_guestwifi_status returns
\* {enabled: {error: <message>}}.
C5_ReadFailureMarker ==
    \A r \in Requests :
        C5_ReadFailed(r)
        => result[r] = [enabled |-> [error |-> Str(ErrMsg("GetInfo"))]]

(* C6 *)

InfoActions == <<"GetInfo", "GetSSID", "GetStatistics">>

NoOtherException(r) ==
    \A i \in 1..Len(trace[r]) : trace[r][i].out # "exc"

\* C6: get_info calls GetInfo, GetSSID and GetStatistics in turn whichever
\* of them fail with an ActionError, raises nothing then, and returns the
\* complete structure; the field of every action that did not fail carries
\* the router's data, and when only GetStatistics fails the stats field
\* alone is an error marker.
C6_AggregationResilience ==
    \A r \in Requests :
        handler[r] = "guestwifi"
        => /\ Len(trace[r]) <= 3
           /\ \A i \in 1..Len(trace[r]) : trace[r][i].a = InfoActions[i]
           /\ (NoOtherException(r) /\ fritzbox[r] # "unset")
              => /\ pc[r] # "raised"
                 /\ pc[r] = "get_info_stats" => Len(trace[r]) = 2
                 /\ pc[r] = "get_info_ssid" => Len(trace[r]) = 1
           /\ Returned(r)
              => LET g == result[r].fritzbox.guestwifi
                     e == trace[r]
                 IN  /\ Len(e) = 3
                     /\ DOMAIN result[r] = {"fritzbox"}
                     /\ DOMAIN result[r].fritzbox =
                            {"version", "model", "guestwifi"}
                     /\ DOMAIN g = {"enabled", "ssid", "stats"}
                     /\ result[r].fritzbox.version = Str("7.29")
                     /\ result[r].fritzbox.model = Str("FRITZ!Box 7590")
                     /\ e[1].out = "ok" => g.enabled = Str(e[1].st)
                     /\ e[2].out = "ok" => g.ssid = Str("guest")
                     /\ e[3].out = "ok" => g.stats = RouterReply("GetStatistics")
                     /\ (e[1].out = "ok" /\ e[2].out = "ok" /\ e[3].out = "err")
                        => /\ g.stats = [error |-> Str(ErrMsg("GetStatistics"))]
                           /\ ~IsErrorMarker(g.enabled)
                           /\ ~IsErrorMarker(g.ssid)

C6_Witness ==
    \E r \in Requests :
        /\ handler[r] = "guestwifi"
        /\ pc[r] = "done"
        /\ trace[r][1].out = "ok"
        /\ trace[r][2].out = "ok"
        /\ trace[r][3].out = "err"
        /\ IsErrorMarker(result[r].fritzbox.guestwifi.stats)
        /\ response[r] = [kind |-> "json", body |-> result[r]]

(* C7 *)

\* C7: in the result of get_info the field of every action that failed
\* (enabled for GetInfo, ssid for GetSSID, stats for GetStatistics) is an
\* error marker with the failure description.
C7_ErrorMarkerPerField ==
    \A r \in Requests :
        (handler[r] = "guestwifi" /\ Returned(r))
        => LET g == result[r].fritzbox.guestwifi
           IN  /\ trace[r][1].out = "err"
                  => g.enabled = [error |-> Str(ErrMsg("GetInfo"))]
               /\ trace[r][2].out = "err"
                  => g.ssid = [error |-> Str(ErrMsg("GetSSID"))]
               /\ trace[r][3].out = "err"
                  => g.stats = [error |-> Str(ErrMsg("GetStatistics"))]

(* C8 *)

\* C8: a handler that has finished, by its return or by an exception, and
\* had built its controller has called close() exactly once, and the
\* connection is released.
C8_GuaranteedRelease ==
    \A r \in Requests :
        (Finished(r) /\ fritzbox[r] # "unset")
        => /\ closes[r] = 1
           /\ fritzbox[r] = "deleted"

(* C9 *)

AllFinished == \A r \in Requests : Finished(r)

\* C9: once every request has finished and the router has settled, the
\* router's status is the one asked for by the request whose SetEnable the
\* router took last, whatever the interleaving; it is the status from before
\* the requests when the router took no SetEnable.
C9_LastWriteWins ==
    (AllFinished /\ dev.timer = 0)
    => IF wire = <<>>
       THEN dev.status = dev0
       ELSE LET last == wire[Len(wire)]
            IN  /\ last.NewEnable = EnableOf(handler[last.req])
                /\ dev.status = IF handler[last.req] = "guestwifi_enable"
                                THEN "Up" ELSE "Down"

\* Two set requests in flight together, the later one writing first, with
\* opposite flags; the router ends with the second write.
C9_Witness ==
    /\ AllFinished
    /\ dev.timer = 0
    /\ Len(wire) = 2
    /\ wire[1].req = 2
    /\ wire[2].req = 1
    /\ handler[1] = "guestwifi_disable"
    /\ handler[2] = "guestwifi_enable"
    /\ dev.status = "Down"

(* C10 *)

\* C10: a set_guestwifi_status call that has sent SetEnable goes through the
\* sleep and the GetInfo re-read and returns, whatever SetEnable ended in:
\* no request that sent SetEnable finishes without them.
C10_NoCancellation ==
    \A r \in Requests :
        (Finished(r) /\ Count(r, "SetEnable") >= 1)
        => /\ pc[r] = "done"
           /\ Len(trace[r]) = 4
           /\ trace[r][3].a = "sleep"
           /\ trace[r][4].a = "GetInfo"

(* C11 *)

\* Request r is a root request whose get_guestwifi_status has returned
C11_StatusRead(r) == handler[r] = "root" /\ Returned(r)

\* The calls of get_guestwifi_status by root: one GetInfo, no SetEnable, no
\* sleep
C11_OneRead ==
    \A r \in Requests :
        handler[r] = "root"
        => /\ Len(trace[r]) <= 1
           /\ Count(r, "SetEnable") = 0
           /\ Count(r, "sleep") = 0
           /\ sleepLeft[r] = 0
           /\ Returned(r) => Len(trace[r]) = 1 /\ trace[r][1].a = "GetInfo"

\* The step of a root request that calls the router leaves the router as
\* it is
C11_RouterUntouched ==
    \A r \in Requests :
        (handler[r] = "root" /\ trace'[r] # trace[r])
        => dev' = dev /\ wire' = wire

C12_MaxCalls(h) ==
    CASE h = "root" -> 1
      [] h = "guestwifi" -> 3
      [] OTHER -> 4

\* The steps of a request come in the order setup, one controller
\* operation, close(), response
C12_Order ==
    \A r \in Requests :
        /\ closes[r] <= 1
        /\ trace[r] # <<>> => fritzbox[r] # "unset"
        /\ Len(trace[r]) <= C12_MaxCalls(handler[r])
        /\ (fritzbox[r] = "deleted") = (closes[r] = 1)
        /\ fritzbox[r] = "deleted"
           => /\ pc[r] \in {"respond", "done"}
              /\ result[r] # PyNone
        /\ response[r].kind \in {"page", "json", "redirect"}
           => /\ pc[r] = "done"
              /\ fritzbox[r] = "deleted"

\* A step of request r that calls call_action finds the attribute fritzbox
\* of its controller in place: set by its own setup, not yet deleted
C12_CallsBeforeClose ==
    \A r \in Requests :
        (/\ trace'[r] # trace[r]
         /\ trace'[r][Len(trace'[r])].a # "sleep")
        => fritzbox[r] = "set" /\ closes[r] = 0

\* C12: every request goes setup, controller, one operation, close(),
\* response, in this order; no call_action is made through a controller
\* after its close() or before its own setup.
C12_NoUseAfterClose ==
    /\ []C12_Order
    /\ [][C12_CallsBeforeClose]_vars

C12_Witness ==
    \E r \in Requests :
        /\ handler[r] = "guestwifi"
        /\ pc[r] = "done"
        /\ Len(trace[r]) = 3
        /\ closes[r] = 1
        /\ fritzbox[r] = "deleted"
        /\ response[r].kind = "json"

(* C13 *)

C13_OnlyTheReread(r) ==
    \A i, j \in 1..Len(trace[r]) :
        (i < j /\ trace[r][i].a = trace[r][j].a)
        => /\ handler[r] \in SetHandlers
           /\ trace[r][i].a = "GetInfo"
           /\ i = 1
           /\ j = 4
           /\ trace[r][2].a = "SetEnable"
           /\ trace[r][3].a = "sleep"

C14_CountsAsEnabled(e) == StatusRead(e) = Str("Up")

\* set_guestwifi_status of request r returned after its first read
C14_ShortCircuited(r) == Len(trace[r]) = 1 /\ Returned(r)

\* C14: the guest WiFi counts as enabled exactly when the status read is
\* "Up": an enable returns after its first read iff that read is "Up", a
\* disable iff it is anything else ("Down", another string, None of a failed
\* read), and the flag of the GET / page is true iff the status is "Up".
C14_BinaryStatus ==
    \A r \in Requests :
        /\ FirstReadReturned(r)
           => (C14_ShortCircuited(r)
                 = ((handler[r] = "guestwifi_enable")
                       = C14_CountsAsEnabled(trace[r][1])))
        /\ (handler[r] = "root" /\ pc[r] = "done")
           => /\ response[r].kind = "page"
              /\ response[r].guestwifi_enabled
                    = C14_CountsAsEnabled(trace[r][1])

C14_Witness ==
    \E r1, r2 \in Requests :
        /\ handler[r1] = "root"
        /\ pc[r1] = "done"
        /\ trace[r1][1].out = "ok"
        /\ trace[r1][1].st = "Disabled"
        /\ response[r1].guestwifi_enabled = FALSE
        /\ handler[r2] = "guestwifi_disable"
        /\ C14_ShortCircuited(r2)
        /\ trace[r2][1].out = "ok"
        /\ trace[r2][1].st = "Disabled"

(* C15 *)

\* Request r has not arrived: no handler has run for it, no connection has
\* been opened for it
C15_NeverRan(r) ==
    /\ pc[r] = "idle"
    /\ handler[r] = "none"
    /\ fritzbox[r] = "unset"
    /\ trace[r] = <<>>
    /\ response[r] = NoResponse

\* A setting is absent (None) or empty
C15_CredentialMissing == \E n \in EnvNames : env[n] \in {"None", ""}

\* The assert on the firmware version (line 131) has ended the process: the
\* connection of the check was open and was not deleted
C15_VersionMissing == proc = "exited" /\ probe = "open"

C16_AfterMismatch(r, i) ==
    LET v == trace[r][i].arg.NewEnable
    IN  /\ handler[r] \in SetHandlers
        /\ v = EnableOf(handler[r])
        /\ i = 2
        /\ trace[r][1].a = "GetInfo"
        /\ trace[r][1].out # "exc"
        /\ locals[r].status = StatusRead(trace[r][1])
        /\ IF Truthy(v)
           THEN StatusRead(trace[r][1]) # Str("Up")
           ELSE StatusRead(trace[r][1]) = Str("Up")

\* C16: whatever the interleaving, every SetEnable(NewEnable = v) of a
\* request comes directly after the GetInfo read of the same
\* set_guestwifi_status call, and that read was not "Up" for a true v and
\* was "Up" for a false v; the router takes no SetEnable but these.
C16_WriteAfterMismatch ==
    /\ \A r \in Requests :
          \A i \in 1..Len(trace[r]) :
              trace[r][i].a = "SetEnable" => C16_AfterMismatch(r, i)
    /\ \A k \in 1..Len(wire) :
          LET r == wire[k].req
          IN  /\ Len(trace[r]) >= 2
              /\ trace[r][2].a = "SetEnable"
              /\ trace[r][2].arg.NewEnable = wire[k].NewEnable

C16_Witness ==
    \E r1, r2 \in Requests :
        /\ handler[r1] = "guestwifi_enable"
        /\ handler[r2] = "guestwifi_disable"
        /\ Len(wire) = 2
        /\ wire[1].req = r1
        /\ wire[2].req = r2
        /\ StatusRead(trace[r1][1]) = Str("Down")
        /\ StatusRead(trace[r2][1]) = Str("Up")
        /\ Len(trace[r1]) = 2

(* C17 *)

\* The first GetInfo of the set request r failed with a
\* FritzConnectionException
C17_PreReadFailed(r) ==
    /\ handler[r] \in SetHandlers
    /\ Len(trace[r]) >= 1
    /\ trace[r][1].out = "err"

\* The result of request r keeps nothing of the failure of its first read
C17_FailureDropped(r) ==
    /\ DOMAIN result[r] = {"enabled"}
    /\ ~IsErrorMarker(result[r].enabled)

\* C17: when the first GetInfo of set_guestwifi_status fails, the disable
\* call sends no SetEnable and returns at once with {enabled: None}; the
\* enable call goes on to one SetEnable(NewEnable = 1), the wait and the
\* re-read, and returns what the re-read gives; neither result holds the
\* failure description of the first read.
C17_AsymmetricReadFailure ==
    \A r \in Requests :
        C17_PreReadFailed(r)
        => IF handler[r] = "guestwifi_disable"
           THEN /\ Returned(r)
                /\ Len(trace[r]) = 1
                /\ result[r] = [enabled |-> PyNone]
                /\ C17_FailureDropped(r)
           ELSE /\ Len(trace[r]) = 1 => pc[r] = "set_write"
                /\ Len(trace[r]) >= 2
                   => /\ trace[r][2].a = "SetEnable"
                      /\ trace[r][2].arg = [NewEnable |-> 1]
                /\ Count(r, "SetEnable") <= 1
                /\ Returned(r)
                   => /\ Len(trace[r]) = 4
                      /\ Count(r, "SetEnable") = 1
                      /\ trace[r][3].a = "sleep"
                      /\ trace[r][4].a = "GetInfo"
                      /\ result[r] = [enabled |-> StatusRead(trace[r][4])]
                      /\ C17_FailureDropped(r)

C17_Witness ==
    \E r1, r2 \in Requests :
        /\ C17_PreReadFailed(r1)
        /\ C17_PreReadFailed(r2)
        /\ handler[r1] = "guestwifi_disable"
        /\ handler[r2] = "guestwifi_enable"
        /\ Returned(r1)
        /\ Returned(r2)
        /\ result[r2] = [enabled |-> Str("Up")]

(* C18 *)

\* The SetEnable calls of request r the router has taken
C18_Delivered(r) == {k \in 1..Len(wire) : wire[k].req = r}

\* C18: a request sends SetEnable at most once, and sends none exactly when
\* its own first read agrees with the value asked for, whatever the router
\* has taken from other requests meanwhile. (That two requests for the same
\* value can both write, the second when the router is already in the
\* status asked for, is the state C18_Witness.)
C18_PerRequestIdempotence ==
    \A r \in Requests :
        /\ Count(r, "SetEnable") <= 1
        /\ Cardinality(C18_Delivered(r)) <= Count(r, "SetEnable")
        /\ (FirstReadReturned(r) /\ ~ChangePath(r))
           => /\ Count(r, "SetEnable") = 0
              /\ C18_Delivered(r) = {}

\* Two enable requests have read "Down" from a router that was "Down"; the
\* router has taken the SetEnable of the first and is "Up"; it has just now
\* taken the SetEnable of the second
C18_Witness ==
    \E r1, r2 \in Requests :
        /\ r1 # r2
        /\ handler[r1] = "guestwifi_enable"
        /\ handler[r2] = "guestwifi_enable"
        /\ dev0 = "Down"
        /\ Len(trace[r1]) >= 2
        /\ Len(trace[r2]) >= 2
        /\ StatusRead(trace[r1][1]) = Str("Down")
        /\ StatusRead(trace[r2][1]) = Str("Down")
        /\ Len(wire) = 2
        /\ wire[1] = [req |-> r1, NewEnable |-> 1, settle |-> wire[1].settle]
        /\ wire[2] = [req |-> r2, NewEnable |-> 1, settle |-> wire[2].settle]
        /\ pc[r2] = "set_sleep"
        /\ sleepLeft[r2] = SleepSeconds
        /\ dev.timer = wire[2].settle
        /\ dev.status = "Up"

(* C19 *)

\* The SetEnable of the set request r failed with a
\* FritzConnectionException
C19_WriteFailed(r) ==
    /\ handler[r] \in SetHandlers
    /\ Len(trace[r]) >= 2
    /\ trace[r][2].a = "SetEnable"
    /\ trace[r][2].out = "err"

\* C19: when SetEnable fails, set_guestwifi_status goes on to the wait and
\* the re-read as after a success; its result is {enabled: status of the
\* re-read}, with no error field of SetEnable, and the handler answers with
\* the redirect it gives after a successful change.
C19_FailedWriteNotSurfaced ==
    \A r \in Requests :
        /\ C19_WriteFailed(r)
           => /\ Len(trace[r]) = 2 => pc[r] = "set_sleep"
              /\ Returned(r)
                 => /\ Len(trace[r]) = 4
                    /\ trace[r][3].a = "sleep"
                    /\ trace[r][4].a = "GetInfo"
                    /\ result[r] = [enabled |-> StatusRead(trace[r][4])]
                    /\ DOMAIN result[r] = {"enabled"}
                    /\ ~IsErrorMarker(result[r].enabled)
        /\ (handler[r] \in SetHandlers /\ pc[r] = "done")
           => response[r] = [kind |-> "redirect"]

C19_Witness ==
    \E r \in Requests :
        /\ handler[r] = "guestwifi_enable"
        /\ C19_WriteFailed(r)
        /\ pc[r] = "done"
        /\ wire = <<>>
        /\ trace[r][1].out = "ok"
        /\ result[r] = [enabled |-> Str("Down")]
        /\ response[r] = [kind |-> "redirect"]

====
